---- MODULE Spec2Model ----
(***************************************************************************)
(* Model of the composition function of demo-xfn-network (src/fn.go):      *)
(* Function.RunFunction reads the observed composite resource (XR), and    *)
(* adds `count` VPCs and, when includeGateway is set, one InternetGateway  *)
(* per VPC to the desired composed resources of the response.              *)
(*                                                                         *)
(* Go strings are TLA+ strings; fmt.Sprintf and errors.Wrapf are modelled  *)
(* by concatenation, %d by decimal formatting (Itoa).  A Go map is a       *)
(* function whose DOMAIN is the set of keys.                               *)
(***************************************************************************)
EXTENDS Integers, Sequences, FiniteSets, TLC

VARIABLES
    pc,                 \* position of the invocation in RunFunction
    req,                \* the RunFunctionRequest being served
    fault,              \* the call of the SDK that returns an error in this invocation
    rsp,                \* the RunFunctionResponse under construction
    id,                 \* fn.go:43
    count,              \* fn.go:44
    includeGateway,     \* fn.go:45
    region,             \* fn.go:46-49
    providerConfigName, \* fn.go:50-53
    desired,            \* fn.go:57, the map the loop inserts into
    i,                  \* fn.go:69, the loop index
    scheme,             \* composed.Scheme, the process-wide type registry (fn.go:66)
    remembered          \* ghost: one finished invocation kept for comparison

vars == <<pc, req, fault, rsp, id, count, includeGateway, region,
          providerConfigName, desired, i, scheme, remembered>>

locals == <<id, count, includeGateway, region, providerConfigName, desired, i>>

----------------------------------------------------------------------------
(* Bounds of the model and constants of the program.                       *)

\* largest spec.count a request carries
MaxCount == 3

\* a spec.count whose indices need two decimal digits
BigCount == 11

\* response.DefaultTTL, in seconds
DefaultTTL == 60

----------------------------------------------------------------------------
(* Values of the attribute tree of the XR.                                 *)

Missing    == [type |-> "missing", s |-> "", n |-> 0, b |-> FALSE]
String(x)  == [type |-> "string",  s |-> x,  n |-> 0, b |-> FALSE]
Integer(x) == [type |-> "int",     s |-> "", n |-> x, b |-> FALSE]
Float      == [type |-> "float",   s |-> "", n |-> 0, b |-> FALSE]
Bool(x)    == [type |-> "bool",    s |-> "", n |-> 0, b |-> x]

\* oxr.Resource.GetString(path) with the error dropped: the string, or ""
GetString(v) == IF v.type = "string" THEN v.s ELSE ""

\* oxr.Resource.GetInteger(path) with the error dropped: the int64, or 0
GetInteger(v) == IF v.type = "int" THEN v.n ELSE 0

\* oxr.Resource.GetBool(path) with the error dropped: the bool, or false
GetBool(v) == IF v.type = "bool" THEN v.b ELSE FALSE

\* variant: the error of GetObservedCompositeResource is dropped like the others
GetObservedCompositeResourceFails_ignored(r) == FALSE

\* request.GetObservedCompositeResource(req) returns an error
GetObservedCompositeResourceFails(r) == ~r.observed.readable

\* variant: the loop runs to count inclusive
InRange_inclusive(k, n) == k <= n

\* for i := range count
InRange(k, n) == k < n

\* variant: the region is used as read
ResolveRegion_noDefault(v) == GetString(v)

\* region, _ := GetString("spec.region"); if region == "" { region = "eu-central-1" }
ResolveRegion(v) == IF GetString(v) = "" THEN "eu-central-1" ELSE GetString(v)

\* providerConfigName, _ := GetString(...); if == "" { = "default" }
ResolveProviderConfigName(v) == IF GetString(v) = "" THEN "default" ELSE GetString(v)

----------------------------------------------------------------------------
(* Names.                                                                  *)

Digit == <<"0", "1", "2", "3", "4", "5", "6", "7", "8", "9">>

RECURSIVE Itoa(_)
\* the %d verb of fmt.Sprintf
Itoa(n) ==
    IF n < 0 THEN "-" \o Itoa(0 - n)
    ELSE IF n < 10 THEN Digit[n + 1]
    ELSE Itoa(n \div 10) \o Digit[(n % 10) + 1]

\* variant: the index is left out of the name
VpcName_noIndex(xid, k) == "vpc-" \o xid

\* fmt.Sprintf("vpc-%s-%d", id, i)
VpcName(xid, k) == "vpc-" \o xid \o "-" \o Itoa(k)

\* fmt.Sprintf("gateway-%s-%d", id, i)
GatewayName(xid, k) == "gateway-" \o xid \o "-" \o Itoa(k)

LabelNetworkID == "networks.meta.fn.crossplane.io/network-id"
LabelVpcID     == "networks.meta.fn.crossplane.io/vpc-id"

----------------------------------------------------------------------------
(* The synthesized units.                                                  *)

\* variant: the vpc-id label carries the id of the network, not the name of the VPC
VPC_sharedLabel(vpcName, xid, xregion, xprovider) ==
    [gotype   |-> "VPC",
     metadata |-> [name   |-> vpcName,
                   labels |-> (LabelNetworkID :> xid) @@ (LabelVpcID :> xid)],
     spec     |-> [forProvider |-> [region             |-> xregion,
                                    cidrBlock          |-> "192.168.0.0/16",
                                    enableDnsSupport   |-> TRUE,
                                    enableDnsHostnames |-> TRUE],
                   providerConfigRef |-> [name |-> xprovider]]]

\* &awsv1beta1.VPC{...}
VPC(vpcName, xid, xregion, xprovider) ==
    [gotype   |-> "VPC",
     metadata |-> [name   |-> vpcName,
                   labels |-> (LabelNetworkID :> xid) @@ (LabelVpcID :> vpcName)],
     spec     |-> [forProvider |-> [region             |-> xregion,
                                    cidrBlock          |-> "192.168.0.0/16",
                                    enableDnsSupport   |-> TRUE,
                                    enableDnsHostnames |-> TRUE],
                   providerConfigRef |-> [name |-> xprovider]]]

\* variant: the selector names the gateway itself
InternetGateway_selfSelector(gatewayName, vpcName, xid, xregion, xprovider) ==
    [gotype   |-> "InternetGateway",
     metadata |-> [name   |-> gatewayName,
                   labels |-> (LabelNetworkID :> xid)],
     spec     |-> [forProvider |-> [region        |-> xregion,
                                    vpcIdSelector |-> [matchControllerRef |-> TRUE,
                                                       matchLabels |-> (LabelVpcID :> gatewayName)]],
                   providerConfigRef |-> [name |-> xprovider]]]

\* &awsv1beta1.InternetGateway{...}
InternetGateway(gatewayName, vpcName, xid, xregion, xprovider) ==
    [gotype   |-> "InternetGateway",
     metadata |-> [name   |-> gatewayName,
                   labels |-> (LabelNetworkID :> xid)],
     spec     |-> [forProvider |-> [region        |-> xregion,
                                    vpcIdSelector |-> [matchControllerRef |-> TRUE,
                                                       matchLabels |-> (LabelVpcID :> vpcName)]],
                   providerConfigRef |-> [name |-> xprovider]]]

\* variant: a call registers the InternetGateway only once the VPC is known
AddToScheme_lazy(s) == IF "VPC" \in s THEN s \cup {"InternetGateway"} ELSE s \cup {"VPC"}

\* awsv1beta1.AddToScheme(composed.Scheme): the types the loop converts
AddToScheme(s) == s \cup {"VPC", "InternetGateway"}

\* composed.From(o) returns an error for a type the scheme does not know
FromFails(s, o) == o.gotype \notin s

\* composed.From(o): the unstructured form, apiVersion and kind from the scheme
From(o) ==
    [apiVersion |-> "ec2.aws.upbound.io/v1beta1",
     kind       |-> o.gotype,
     metadata   |-> o.metadata,
     spec       |-> o.spec]

----------------------------------------------------------------------------
(* Maps, errors and the response.                                          *)

EmptyMap == [k \in {} |-> k]

\* variant: the insertion starts a new map
Put_replace(m, k, v) == [x \in {k} |-> v]

\* m[k] = v of a Go map
Put(m, k, v) == [x \in (DOMAIN m) \cup {k} |-> IF x = k THEN v ELSE m[x]]

\* errors.Wrapf(err, msg).Error()
Wrapf(err, msg) == msg \o ": " \o err

\* variant: the response is built without the TTL
To_noTTL(r, ttl) == [ttl |-> 0, desired |-> r.desired, results |-> <<>>]

\* response.To(req, response.DefaultTTL)
To(r, ttl) == [ttl |-> ttl, desired |-> r.desired, results |-> <<>>]

\* variant: the error is not recorded on the response
Fatal_dropped(r, err) == r

\* response.Fatal(rsp, err)
Fatal(r, err) ==
    [r EXCEPT !.results = Append(@, [severity |-> "FATAL", message |-> err])]

\* request.GetDesiredComposedResources(req): a new map with the request's entries
GetDesiredComposedResources(r) == r.desired

\* response.SetDesiredComposedResources(rsp, desired)
SetDesiredComposedResources(r, d) ==
    [r EXCEPT !.desired = [x \in (DOMAIN @) \cup (DOMAIN d) |->
                              IF x \in DOMAIN d THEN d[x] ELSE @[x]]]

IsFatal(r) == \E k \in 1..Len(r.results) : r.results[k].severity = "FATAL"

----------------------------------------------------------------------------
(* Requests.                                                               *)

\* a desired composed resource another function of the pipeline produced
Foreign ==
    [apiVersion |-> "s3.aws.upbound.io/v1beta1",
     kind       |-> "Bucket",
     metadata   |-> [name |-> "bucket", labels |-> EmptyMap],
     spec       |-> [forProvider |-> [region |-> "us-west-2"],
                     providerConfigRef |-> [name |-> "other"]]]

Unreadable == [readable |-> FALSE, id |-> Missing, count |-> Missing,
               includeGateway |-> Missing, region |-> Missing,
               providerConfigName |-> Missing]

Composite(a, c, g, r, p) ==
    [readable |-> TRUE, id |-> a, count |-> c, includeGateway |-> g,
     region |-> r, providerConfigName |-> p]

NoFault == [at |-> "none", index |-> 0]
FaultAt(where, k) == [at |-> where, index |-> k]

Observed ==
    {Unreadable} \cup
    {Composite(a, c, g, r, p) :
        a \in {Missing, String("a"), Integer(7)},
        c \in {Missing, String("2"), Float, Integer(BigCount)}
                 \cup {Integer(n) : n \in (0 - 1)..MaxCount},
        g \in {Missing, Bool(TRUE), Bool(FALSE), String("true")},
        r \in {Missing, String(""), String("us-east-1"), Integer(7)},
        p \in {Missing, String(""), String("prod")}}

Desired ==
    {EmptyMap,
     ("bucket" :> Foreign),
     ("vpc-a-0" :> Foreign),
     ("vpc-a-0" :> From(VPC("vpc-a-0", "a", "eu-central-1", "default"))),
     ("gateway-a-1" :> Foreign) @@ ("bucket" :> Foreign)}

Requests == [observed : Observed, desired : Desired]

Faults ==
    {NoFault, FaultAt("getDesired", 0), FaultAt("set", 0)} \cup
    {FaultAt(w, k) : w \in {"vpc", "gateway"}, k \in 0..(MaxCount - 1)}

----------------------------------------------------------------------------
(* The state machine.                                                      *)

ZeroLocals ==
    /\ id = ""
    /\ count = 0
    /\ includeGateway = FALSE
    /\ region = ""
    /\ providerConfigName = ""
    /\ desired = EmptyMap
    /\ i = 0

NoRequest == [observed |-> Unreadable, desired |-> EmptyMap]
NoResponse == [ttl |-> 0, desired |-> EmptyMap, results |-> <<>>]

Init ==
    /\ pc = "idle"
    /\ req = NoRequest
    /\ fault = NoFault
    /\ rsp = NoResponse
    /\ ZeroLocals
    /\ scheme = {}
    /\ remembered = {}

\* fn.go:31-66: the response, the XR, its fields, the desired resources, the scheme
RunFunction_Begin(r, f) ==
    /\ pc = "idle"
    /\ req' = r
    /\ fault' = f
    /\ remembered' = remembered
    /\ IF GetObservedCompositeResourceFails(r)
       THEN /\ rsp' = Fatal(To(r, DefaultTTL),
                            Wrapf("cannot convert struct to object", "cannot get desired XR"))
            /\ pc' = "done"
            /\ UNCHANGED <<locals, scheme>>
       ELSE /\ id' = GetString(r.observed.id)
            /\ count' = GetInteger(r.observed.count)
            /\ includeGateway' = GetBool(r.observed.includeGateway)
            /\ region' = ResolveRegion(r.observed.region)
            /\ providerConfigName' = ResolveProviderConfigName(r.observed.providerConfigName)
            /\ i' = i
            /\ IF f.at = "getDesired"
               THEN /\ rsp' = Fatal(To(r, DefaultTTL),
                                    Wrapf("cannot convert struct to object",
                                          "cannot get desired resources from *v1.RunFunctionRequest"))
                    /\ pc' = "done"
                    /\ UNCHANGED <<desired, scheme>>
               ELSE /\ rsp' = To(r, DefaultTTL)
                    /\ desired' = GetDesiredComposedResources(r)
                    /\ scheme' = AddToScheme(scheme)
                    /\ pc' = "loop"

\* fn.go:69-99: one more index of the range; the VPC of that index
RunFunction_VPC ==
    /\ pc = "loop"
    /\ InRange(i, count)
    /\ LET vpcName == VpcName(id, i)
           vpc == VPC(vpcName, id, region, providerConfigName)
       IN  IF FromFails(scheme, vpc) \/ fault = FaultAt("vpc", i)
           THEN /\ rsp' = Fatal(rsp, Wrapf("cannot convert object",
                            "cannot convert *v1beta1.VPC to *composed.Unstructured"))
                /\ pc' = "done"
                /\ UNCHANGED desired
           ELSE /\ desired' = Put(desired, vpcName, From(vpc))
                /\ pc' = "gateway"
                /\ UNCHANGED rsp
    /\ UNCHANGED <<req, fault, id, count, includeGateway, region,
                   providerConfigName, i, scheme, remembered>>

\* fn.go:101-136: the InternetGateway of the index, when asked for; next index
RunFunction_Gateway ==
    /\ pc = "gateway"
    /\ IF ~includeGateway
       THEN /\ pc' = "loop"
            /\ i' = i + 1
            /\ UNCHANGED <<rsp, desired>>
       ELSE LET vpcName == VpcName(id, i)
                gatewayName == GatewayName(id, i)
                gateway == InternetGateway(gatewayName, vpcName, id, region,
                                           providerConfigName)
            IN  IF FromFails(scheme, gateway) \/ fault = FaultAt("gateway", i)
                THEN /\ rsp' = Fatal(rsp, Wrapf("cannot convert object",
                                 "cannot convert *v1beta1.InternetGateway to *composed.Unstructured"))
                     /\ pc' = "done"
                     /\ UNCHANGED <<desired, i>>
                ELSE /\ desired' = Put(desired, gatewayName, From(gateway))
                     /\ pc' = "loop"
                     /\ i' = i + 1
                     /\ UNCHANGED rsp
    /\ UNCHANGED <<req, fault, id, count, includeGateway, region,
                   providerConfigName, scheme, remembered>>

\* fn.go:138-145: the desired resources go back on the response
RunFunction_End ==
    /\ pc = "loop"
    /\ ~InRange(i, count)
    /\ IF fault.at = "set"
       THEN rsp' = Fatal(rsp, Wrapf("cannot convert object to struct",
                    "cannot set desired composed resources in *v1.RunFunctionResponse"))
       ELSE rsp' = SetDesiredComposedResources(rsp, desired)
    /\ pc' = "done"
    /\ UNCHANGED <<req, fault, locals, scheme, remembered>>

\* the caller takes the response; the frame of the invocation is gone
Return(keep) ==
    /\ pc = "done"
    /\ pc' = "idle"
    /\ remembered' = IF keep
                     THEN {[req |-> req, fault |-> fault, rsp |-> rsp, desired |-> desired]}
                     ELSE remembered
    /\ req' = NoRequest
    /\ fault' = NoFault
    /\ rsp' = NoResponse
    /\ id' = ""
    /\ count' = 0
    /\ includeGateway' = FALSE
    /\ region' = ""
    /\ providerConfigName' = ""
    /\ desired' = EmptyMap
    /\ i' = 0
    /\ UNCHANGED scheme

Invoke ==
    /\ pc = "idle"
    /\ \E r \in Requests, f \in Faults : RunFunction_Begin(r, f)

Forget == Return(FALSE)

Next ==
    \/ Invoke
    \/ RunFunction_VPC
    \/ RunFunction_Gateway
    \/ RunFunction_End
    \/ Forget

Spec == Init /\ [][Next]_vars

----------------------------------------------------------------------------
(* Repeated invocations: one finished invocation is kept, with its request *)
(* and its output, while the function serves further requests.             *)

ObservedTwice ==
    {Unreadable} \cup
    {Composite(String("a"), Integer(n), Bool(g), r, Missing) :
        n \in 0..(MaxCount - 1),
        g \in BOOLEAN,
        r \in {Missing, String("us-east-1")}}

RequestsTwice == [observed : ObservedTwice, desired : {EmptyMap, ("bucket" :> Foreign)}]

FaultsTwice == {NoFault, FaultAt("vpc", 1), FaultAt("gateway", 0), FaultAt("set", 0)}

InvokeTwice ==
    /\ pc = "idle"
    /\ \E r \in RequestsTwice, f \in FaultsTwice : RunFunction_Begin(r, f)

Remember ==
    /\ remembered = {}
    /\ Return(TRUE)

NextTwice ==
    \/ InvokeTwice
    \/ RunFunction_VPC
    \/ RunFunction_Gateway
    \/ RunFunction_End
    \/ Forget
    \/ Remember

SpecTwice == Init /\ [][NextTwice]_vars

----------------------------------------------------------------------------
(* Vocabulary of the properties.                                           *)

Done == pc = "done"
Readable == req.observed.readable
Success == Done /\ ~IsFatal(rsp)

\* the conversion the environment makes fail is one the loop reaches
FaultReached ==
    /\ fault.at \in {"vpc", "gateway"}
    /\ fault.index < count
    /\ fault.at = "gateway" => includeGateway

VpcNames(n) == {VpcName(id, k) : k \in 0..(n - 1)}
GatewayNames(n) == {GatewayName(id, k) : k \in 0..(n - 1)}
GeneratedNames == VpcNames(count) \cup (IF includeGateway THEN GatewayNames(count) ELSE {})

IsNetworkUnit(m, name) ==
    /\ name \in DOMAIN m
    /\ m[name].kind = "VPC"
    /\ m[name].metadata.name = name

IsGatewayUnit(m, name) ==
    /\ name \in DOMAIN m
    /\ m[name].kind = "InternetGateway"
    /\ m[name].metadata.name = name

\* the entry of m under name is the one the request carried, if there is any
Untouched(m, name) ==
    name \in DOMAIN m => (name \in DOMAIN req.desired /\ m[name] = req.desired[name])

----------------------------------------------------------------------------
(* C1: a successful invocation with count >= 0 leaves exactly count        *)
(* network units under the keys vpc-<id>-0 .. vpc-<id>-(count-1), exactly  *)
(* count gateway units under gateway-<id>-0 .. when includeGateway is      *)
(* true and none when it is false; every other key is an entry of the      *)
(* request; with count = 0 nothing is added and the response is a success. *)
C1_ExactUnits ==
    /\ (Success /\ req.observed.count.type = "int" /\ req.observed.count.n >= 0) =>
          LET n == req.observed.count.n IN
          /\ Cardinality(VpcNames(n)) = n
          /\ \A k \in 0..(n - 1) : IsNetworkUnit(rsp.desired, VpcName(id, k))
          /\ includeGateway =>
                /\ Cardinality(GatewayNames(n)) = n
                /\ \A k \in 0..(n - 1) : IsGatewayUnit(rsp.desired, GatewayName(id, k))
                /\ \A x \in DOMAIN rsp.desired :
                      x \in VpcNames(n) \cup GatewayNames(n) \/ Untouched(rsp.desired, x)
          /\ ~includeGateway =>
                \A x \in DOMAIN rsp.desired : x \in VpcNames(n) \/ Untouched(rsp.desired, x)
          /\ n = 0 => rsp.desired = req.desired
    /\ (Done /\ Readable /\ fault = NoFault /\ req.observed.count = Integer(0)) => Success

C1_Witness ==
    /\ Success
    /\ req.observed.count = Integer(MaxCount)
    /\ includeGateway
    /\ Cardinality(DOMAIN rsp.desired) = 2 * MaxCount

C1_WitnessZero ==
    /\ Success
    /\ req.observed.count = Integer(0)

----------------------------------------------------------------------------
(* C2, as stated: whatever the request's desired resources are, no key is  *)
(* deleted, no definition under a key of the request is changed, and every *)
(* added key is a generated name.                                          *)
FrameOf(m) ==
    /\ \A x \in DOMAIN req.desired : x \in DOMAIN m /\ m[x] = req.desired[x]
    /\ \A x \in (DOMAIN m) \ (DOMAIN req.desired) : x \in GeneratedNames

C2_Original ==
    /\ pc \in {"loop", "gateway"} => FrameOf(desired)
    /\ pc # "idle" => FrameOf(rsp.desired)

(* C2, amended: no key is deleted; the definition under a key of the       *)
(* request that is not a generated name (vpc-<id>-<i>, gateway-<id>-<i>,   *)
(* 0 <= i < count) is never changed; every added key is a generated name.  *)
(* An entry of the request under a generated name is overwritten.          *)
AmendedFrameOf(m) ==
    /\ \A x \in DOMAIN req.desired :
          /\ x \in DOMAIN m
          /\ x \notin GeneratedNames => m[x] = req.desired[x]
    /\ \A x \in (DOMAIN m) \ (DOMAIN req.desired) : x \in GeneratedNames

C2_Frame ==
    /\ pc \in {"loop", "gateway"} => AmendedFrameOf(desired)
    /\ pc # "idle" => AmendedFrameOf(rsp.desired)

C2_Witness ==
    /\ Success
    /\ count >= 2
    /\ includeGateway
    /\ "bucket" \in DOMAIN req.desired
    /\ "gateway-a-1" \in DOMAIN req.desired
    /\ rsp.desired["bucket"] = Foreign
    /\ rsp.desired["gateway-a-1"] # Foreign

----------------------------------------------------------------------------
(* C3: with includeGateway, the gateway unit of every index k the loop has *)
(* finished has the selector {vpc-id: vpc-<id>-<k>}, the name of the       *)
(* network unit of the same index and its only pair, and                   *)
(* matchControllerRef true; so has every gateway unit of a success.        *)
SelectorOf(m, k) == m[GatewayName(id, k)].spec.forProvider.vpcIdSelector

PairedSelector(m, k) ==
    /\ IsGatewayUnit(m, GatewayName(id, k))
    /\ DOMAIN SelectorOf(m, k).matchLabels = {LabelVpcID}
    /\ SelectorOf(m, k).matchLabels[LabelVpcID] = VpcName(id, k)
    /\ \A j \in 0..(count - 1) :
          j # k => SelectorOf(m, k).matchLabels[LabelVpcID] # VpcName(id, j)
    /\ SelectorOf(m, k).matchControllerRef = TRUE

C3_Selector ==
    /\ (pc \in {"loop", "gateway", "done"} /\ includeGateway) =>
          \A k \in 0..(i - 1) : PairedSelector(desired, k)
    /\ (Success /\ includeGateway) =>
          \A k \in 0..(count - 1) : PairedSelector(rsp.desired, k)

C3_Witness ==
    /\ Success
    /\ includeGateway
    /\ count = BigCount
    /\ SelectorOf(rsp.desired, 10).matchLabels[LabelVpcID] = "vpc-a-10"

----------------------------------------------------------------------------
(* C4: for the id and count of an invocation the generated names are       *)
(* pairwise distinct, vpc-<id>-<i> against vpc-<id>-<j>, gateway-<id>-<i>  *)
(* against gateway-<id>-<j>, and no vpc name is a gateway name; a success  *)
(* holds one entry for each generated name, each under its own name.       *)
C4_DistinctNames ==
    /\ Done =>
          /\ \A a, b \in 0..(count - 1) :
                a # b => /\ VpcName(id, a) # VpcName(id, b)
                         /\ GatewayName(id, a) # GatewayName(id, b)
          /\ VpcNames(count) \cap GatewayNames(count) = {}
    /\ (Success /\ count >= 0) =>
          /\ Cardinality(GeneratedNames \cap DOMAIN rsp.desired)
                = (IF includeGateway THEN 2 ELSE 1) * count
          /\ \A k \in 0..(count - 1) : IsNetworkUnit(rsp.desired, VpcName(id, k))
          /\ includeGateway =>
                \A k \in 0..(count - 1) : IsGatewayUnit(rsp.desired, GatewayName(id, k))

C4_Witness ==
    /\ Success
    /\ includeGateway
    /\ count = BigCount
    /\ req.desired = EmptyMap
    /\ Cardinality(DOMAIN rsp.desired) = 2 * BigCount
    /\ {"vpc-a-1", "vpc-a-10", "gateway-a-1", "gateway-a-10"} \subseteq DOMAIN rsp.desired

----------------------------------------------------------------------------
(* C5: when the observed composite resource cannot be retrieved the        *)
(* invocation ends at once: the response is fatal with a non-empty         *)
(* message, no index was iterated, nothing was read or inserted, and the   *)
(* desired resources of the response are those of the request.             *)
C5_UnreadableIsFatal ==
    (pc # "idle" /\ ~Readable) =>
        /\ Done
        /\ IsFatal(rsp)
        /\ \A k \in 1..Len(rsp.results) : rsp.results[k].message # ""
        /\ i = 0
        /\ desired = EmptyMap
        /\ rsp.desired = req.desired

C5_Witness ==
    /\ Done
    /\ ~Readable
    /\ req.desired # EmptyMap
    /\ IsFatal(rsp)
    /\ rsp.desired = req.desired

----------------------------------------------------------------------------
(* C6: when the conversion fails at index k, the response is fatal; the    *)
(* unit that failed and the units of every later index are not inserted;   *)
(* the units of the indices below k, and vpc-<id>-<k> when the gateway's   *)
(* conversion failed, stay in the collection.                              *)
C6_NoRollback ==
    (Done /\ Readable /\ FaultReached) =>
        LET k == fault.index IN
        /\ IsFatal(rsp)
        /\ i = k
        /\ \A j \in 0..(k - 1) :
              /\ IsNetworkUnit(desired, VpcName(id, j))
              /\ includeGateway => IsGatewayUnit(desired, GatewayName(id, j))
        /\ fault.at = "gateway" => IsNetworkUnit(desired, VpcName(id, k))
        /\ fault.at = "vpc" => Untouched(desired, VpcName(id, k))
        /\ Untouched(desired, GatewayName(id, k))
        /\ \A j \in (k + 1)..(count - 1) :
              /\ Untouched(desired, VpcName(id, j))
              /\ Untouched(desired, GatewayName(id, j))
        /\ \A x \in DOMAIN desired : x \in GeneratedNames \/ Untouched(desired, x)

C6_Witness ==
    /\ Done
    /\ fault = FaultAt("gateway", 1)
    /\ count = MaxCount
    /\ includeGateway
    /\ IsFatal(rsp)
    /\ DOMAIN desired = {"vpc-a-0", "gateway-a-0", "vpc-a-1"}

C6_WitnessVpc ==
    /\ Done
    /\ fault = FaultAt("vpc", 1)
    /\ count = MaxCount
    /\ IsFatal(rsp)
    /\ DOMAIN desired = {"vpc-a-0"}

----------------------------------------------------------------------------
(* C7, as stated: an invocation ends either fatal with a message or as a   *)
(* success with the TTL, never both; a success has synthesized and merged  *)
(* all count replicas, carries the TTL of 60 seconds, every entry of the   *)
(* request and every generated unit; an invocation that merged some units  *)
(* and not all is not a success.                                           *)
FatalWithMessage ==
    /\ Len(rsp.results) = 1
    /\ rsp.results[1].severity = "FATAL"
    /\ rsp.results[1].message # ""

AllMerged(m) ==
    /\ \A k \in 0..(count - 1) :
          /\ IsNetworkUnit(m, VpcName(id, k))
          /\ includeGateway => IsGatewayUnit(m, GatewayName(id, k))
    /\ DOMAIN m = (DOMAIN req.desired) \cup GeneratedNames

SuccessWithTTL(entries) ==
    /\ rsp.results = <<>>
    /\ rsp.ttl = 60
    /\ ~InRange(i, count)
    /\ ~FaultReached
    /\ AllMerged(rsp.desired)
    /\ \A x \in entries : rsp.desired[x] = req.desired[x]

C7_Original ==
    Done => /\ FatalWithMessage \/ SuccessWithTTL(DOMAIN req.desired)
            /\ ~(FatalWithMessage /\ SuccessWithTTL(DOMAIN req.desired))
            /\ (Readable /\ FaultReached) => IsFatal(rsp)

(* C7, amended: the same, where a success carries every entry of the       *)
(* request whose key is not a generated name, and every generated unit (a  *)
(* generated unit replaces the request's entry of the same name).          *)
C7_Outcome ==
    Done => /\ FatalWithMessage \/ SuccessWithTTL((DOMAIN req.desired) \ GeneratedNames)
            /\ ~(FatalWithMessage /\ SuccessWithTTL((DOMAIN req.desired) \ GeneratedNames))
            /\ (Readable /\ FaultReached) => IsFatal(rsp)

C7_Witness ==
    /\ Success
    /\ count = MaxCount
    /\ includeGateway
    /\ rsp.ttl = 60
    /\ "bucket" \in DOMAIN req.desired
    /\ rsp.desired["bucket"] = Foreign
    /\ Cardinality(DOMAIN rsp.desired) > 2 * MaxCount

----------------------------------------------------------------------------
(* C9: a spec field that is missing or of the wrong type never makes the   *)
(* invocation fatal.  A missing or empty region is "eu-central-1", a       *)
(* missing or empty providerConfigName is "default", and every generated   *)
(* unit carries the two resolved values; a missing id is "", a missing     *)
(* includeGateway is false; a missing, non-numeric or negative count       *)
(* generates no unit and the response is a success.                        *)
Absent(v) == v.type # "string" \/ v.s = ""

CarriesResolved(m, name) ==
    /\ m[name].spec.forProvider.region = region
    /\ m[name].spec.providerConfigRef.name = providerConfigName

C9_Defaulting ==
    /\ (Done /\ Readable /\ fault = NoFault) => Success
    /\ (pc # "idle" /\ Readable /\ fault.at # "getDesired") =>
          /\ Absent(req.observed.region) => region = "eu-central-1"
          /\ ~Absent(req.observed.region) => region = req.observed.region.s
          /\ Absent(req.observed.providerConfigName) => providerConfigName = "default"
          /\ ~Absent(req.observed.providerConfigName)
                => providerConfigName = req.observed.providerConfigName.s
          /\ req.observed.id.type # "string" => id = ""
          /\ req.observed.includeGateway.type # "bool" => includeGateway = FALSE
          /\ (req.observed.count.type # "int" \/ req.observed.count.n < 0) =>
                /\ desired = req.desired
                /\ rsp.desired = req.desired
                /\ pc \in {"loop", "done"}
                /\ (Done /\ fault.at # "set") => Success
          /\ \A k \in 0..(i - 1) :
                /\ CarriesResolved(desired, VpcName(id, k))
                /\ includeGateway => CarriesResolved(desired, GatewayName(id, k))
    /\ Success =>
          \A x \in GeneratedNames : CarriesResolved(rsp.desired, x)

C9_Witness ==
    /\ Success
    /\ req.observed.region = Missing
    /\ req.observed.providerConfigName = String("")
    /\ req.observed.id = Missing
    /\ req.observed.includeGateway = Bool(TRUE)
    /\ count = 2
    /\ rsp.desired["gateway--1"].spec.forProvider.region = "eu-central-1"
    /\ rsp.desired["vpc--1"].spec.providerConfigRef.name = "default"

C9_WitnessCount ==
    /\ Success
    /\ req.observed.count = Integer(0 - 1)
    /\ req.observed.includeGateway = String("true")
    /\ req.desired # EmptyMap
    /\ rsp.desired = req.desired

----------------------------------------------------------------------------
(* C10: in a success with includeGateway, the selector of the gateway unit *)
(* of index k is satisfied by exactly one generated network unit, the one  *)
(* of index k, whose label vpc-id is its own name; network units are       *)
(* labelled exactly {network-id: id, vpc-id: own name}, gateway units      *)
(* exactly {network-id: id}.                                               *)
Matches(labels, selector) ==
    \A l \in DOMAIN selector : l \in DOMAIN labels /\ labels[l] = selector[l]

C10_Linking ==
    (Success /\ includeGateway) =>
        \A k \in 0..(count - 1) :
            LET vpc == rsp.desired[VpcName(id, k)]
                gateway == rsp.desired[GatewayName(id, k)]
            IN  /\ {j \in 0..(count - 1) :
                       Matches(rsp.desired[VpcName(id, j)].metadata.labels,
                               gateway.spec.forProvider.vpcIdSelector.matchLabels)} = {k}
                /\ DOMAIN vpc.metadata.labels = {LabelNetworkID, LabelVpcID}
                /\ vpc.metadata.labels[LabelNetworkID] = id
                /\ vpc.metadata.labels[LabelVpcID] = vpc.metadata.name
                /\ vpc.metadata.name = VpcName(id, k)
                /\ DOMAIN gateway.metadata.labels = {LabelNetworkID}
                /\ gateway.metadata.labels[LabelNetworkID] = id
                /\ \A j \in 0..(count - 1) :
                      ~Matches(rsp.desired[GatewayName(id, j)].metadata.labels,
                               gateway.spec.forProvider.vpcIdSelector.matchLabels)

C10_Witness ==
    /\ Success
    /\ includeGateway
    /\ count = MaxCount
    /\ id = "a"
    /\ rsp.desired["vpc-a-1"].metadata.labels[LabelVpcID] = "vpc-a-1"
    /\ rsp.desired["gateway-a-1"].spec.forProvider.vpcIdSelector.matchLabels[LabelVpcID]
          = "vpc-a-1"

----------------------------------------------------------------------------
(* C8: two invocations with the same input (the same request, with no      *)
(* desired resources in it, and the same conversions failing in the SDK)   *)
(* have the same output, whatever was served between them: the same        *)
(* response (outcome, TTL, keys, definition under each key) and the same   *)
(* collection.                                                             *)
SameInput(m) ==
    /\ m.req = req
    /\ m.fault = fault
    /\ req.desired = EmptyMap

C8_Deterministic ==
    Done => \A m \in remembered :
                SameInput(m) => (m.rsp = rsp /\ m.desired = desired)

C8_Witness ==
    /\ Success
    /\ \E m \in remembered : SameInput(m) /\ m.rsp = rsp
    /\ includeGateway
    /\ count = 2
    /\ DOMAIN rsp.desired = {"vpc-a-0", "gateway-a-0", "vpc-a-1", "gateway-a-1"}

====
